---- MODULE Spec2Model ----
(***************************************************************************)
(* Model of the XML -> Spark -> SQLite load pipeline:                      *)
(*   main.py        the entry point main(): load, derive, snapshot,        *)
(*                  validate, gate, commit                                 *)
(*   sparkclient.py SparkClient.parse_xml, Posts/Tags/PostsTags (checks    *)
(*                  and the containment join)                              *)
(*   db.py          Database.to_sql / execute and the create() DDL         *)
(***************************************************************************)
EXTENDS Integers, Sequences, FiniteSets, TLC

\* ------------------------------------------------------------------ bounds
MaxRuns == 2      \* runs of main() against the same working directory
MaxPosts == 2     \* rows of the posts table given to PostsTags
MaxTags == 2      \* rows of the tags table given to PostsTags
MaxCols == 2      \* columns of the data frame parse_xml renames

VARIABLES
    pc,            \* position of the current run inside main()
    run,           \* number of the current run (its rows are tagged with it)
    posts,         \* posts.df, as the metrics the checks read (or NoData)
    tags,          \* tags.df
    posts_tags,    \* posts_tags.df
    parquet,       \* parquet[name]: run whose snapshot the file holds, 0 if none
    reports,       \* per-suite check results computed so far
    checks,        \* the aggregated report (pandas frame), <<>> before toPandas
    dbFile,        \* warehouse.db exists
    store,         \* the SQLite tables
    calls,         \* calls[t]: Database.to_sql invocations for table t in this run
    execs,         \* Database.execute invocations in this run
    connected,     \* sql.connect has been called in this run
    exitCode,      \* process outcome of this run: "none", "zero", "nonzero"
    storeAtStart,  \* the tables as they were when this run started
    fileAtStart,   \* dbFile when this run started
    history,       \* last run that reached the gate, last run that ended COMMITTED (0: none)
    d_pc, d_posts, d_tags, d_df,      \* PostsTags(sc, posts_df, tags_df) alone
    x_pc, x_fields, x_columns         \* SparkClient.parse_xml alone

vars == <<pc, run, posts, tags, posts_tags, parquet, reports, checks, dbFile,
          store, calls, execs, connected, exitCode, storeAtStart, fileAtStart,
          history, d_pc, d_posts, d_tags, d_df, x_pc, x_fields, x_columns>>

pipeVars == <<pc, run, posts, tags, posts_tags, parquet, reports, checks, dbFile,
              store, calls, execs, connected, exitCode, storeAtStart, fileAtStart,
              history>>
deriveVars == <<d_pc, d_posts, d_tags, d_df>>
xmlVars == <<x_pc, x_fields, x_columns>>

\* ------------------------------------------------------- check suites
Constraint(kind, col, min, allowed) ==
    [kind |-> kind, col |-> col, min |-> min, allowed |-> allowed]
hasSize(n) == Constraint("hasSize", "*", n, {})
isUnique(col) == Constraint("isUnique", col, 0, {})
isComplete(col) == Constraint("isComplete", col, 100, {})
isNonNegative(col) == Constraint("isNonNegative", col, 0, {})
\* the threshold is kept in hundredths: lambda x: x >= 0.44 is min = 44
hasCompleteness(col, hundredths) == Constraint("hasCompleteness", col, hundredths, {})
isContainedIn(col, allowed) == Constraint("isContainedIn", col, 0, allowed)

PostsConstraints == <<
    hasSize(20000),
    isUnique("Id"),
    isComplete("Id"),
    isNonNegative("Id"),
    isNonNegative("AcceptedAnswerId"),
    isNonNegative("AnswerCount"),
    hasCompleteness("AnswerCount", 44),
    isComplete("Body"),
    isComplete("LastActivityDate"),
    hasCompleteness("Title", 44),
    isNonNegative("ParentId"),
    hasCompleteness("ParentId", 45),
    hasCompleteness("LastEditDate", 59),
    hasCompleteness("LastEditorUserId", 58),
    isContainedIn("PostTypeId", {"2", "1", "5", "4", "6", "7"}),
    isComplete("PostTypeId"),
    isNonNegative("ViewCount"),
    hasCompleteness("ViewCount", 44),
    isComplete("Score"),
    hasCompleteness("Tags", 44),
    hasCompleteness("OwnerUserId", 98),
    isComplete("CommentCount"),
    isNonNegative("CommentCount"),
    isNonNegative("FavoriteCount"),
    isContainedIn("ContentLicense", {"CC BY-SA 4.0", "CC BY-SA 3.0"}),
    isComplete("ContentLicense") >>

TagsConstraints == <<
    hasSize(900),
    isComplete("Id"),
    isNonNegative("Id"),
    isUnique("Id"),
    isNonNegative("ExcerptPostId"),
    hasCompleteness("ExcerptPostId", 77),
    isComplete("TagName"),
    isUnique("TagName"),
    isNonNegative("WikiPostId"),
    hasCompleteness("WikiPostId", 77),
    isComplete("Count"),
    isNonNegative("Count") >>

PostsTagsConstraints == <<
    hasSize(30000),
    isComplete("PostId"),
    isNonNegative("PostId"),
    isComplete("TagName"),
    isComplete("TagId"),
    isNonNegative("TagId") >>

\* A data frame is represented by the metrics the verification suite computes
\* on it: its row count, the completeness (in hundredths) of the columns that
\* are not fully populated, the columns holding a negative value, the columns
\* holding a repeated value, and the distinct values of the enumerated columns.
Frame(size, pct, neg, dup, vals) ==
    [size |-> size, pct |-> pct, neg |-> neg, dup |-> dup, vals |-> vals]
NoData == Frame(0, {}, {}, {}, {})

\* pct and vals are sets of <<column, value>> pairs; a column not listed is
\* fully populated / has no value outside any allowed set
Completeness(df, col) ==
    IF \E p \in df.pct : p[1] = col
    THEN (CHOOSE p \in df.pct : p[1] = col)[2]
    ELSE 100
Values(df, col) ==
    IF \E p \in df.vals : p[1] = col
    THEN (CHOOSE p \in df.vals : p[1] = col)[2]
    ELSE {}

\* one constraint evaluated on one data frame
Holds(c, df) ==
    CASE c.kind = "hasSize" -> df.size >= c.min
      [] c.kind = "isUnique" -> c.col \notin df.dup
      [] c.kind = "isComplete" -> Completeness(df, c.col) = 100
      [] c.kind = "isNonNegative" -> c.col \notin df.neg
      [] c.kind = "hasCompleteness" -> Completeness(df, c.col) >= c.min
      [] c.kind = "isContainedIn" -> Values(df, c.col) \subseteq c.allowed

ResultRow(name, c, df) ==
    [check |-> name,
     check_level |-> "Warning",
     constraint |-> <<c.kind, c.col>>,
     constraint_status |-> IF Holds(c, df) THEN "Success" ELSE "Failure"]

\* variant: evaluation stops at the first constraint that fails
RunCheck_ShortCircuit(name, constraints, df) ==
    LET failing == { i \in 1..Len(constraints) : ~Holds(constraints[i], df) }
        last == IF failing = {} THEN Len(constraints)
                ELSE CHOOSE i \in failing : \A j \in failing : i <= j
    IN [i \in 1..last |-> ResultRow(name, constraints[i], df)]

\* VerificationSuite(...).onData(df).addCheck(...).run() followed by
\* check_result_to_df: one row per constraint of the check, in order
RunCheck(name, constraints, df) ==
    [i \in 1..Len(constraints) |-> ResultRow(name, constraints[i], df)]

PostsCheck(df) == RunCheck("Posts Check", PostsConstraints, df)
TagsCheck(df) == RunCheck("Tags Check", TagsConstraints, df)
PostsTagsCheck(df) == RunCheck("Posts Tags Check", PostsTagsConstraints, df)

\* posts.check().union(tags.check()).union(posts_tags.check()).toPandas()
UnionChecks(r) == r.posts \o r.tags \o r.posts_tags

\* checks[checks['constraint_status'] != 'Success']
Failed(report) == SelectSeq(report, LAMBDA r : r.constraint_status # "Success")
\* ------------------------------------------------------- inputs of a run
\* Contents of Posts.xml / Tags.xml the runs are tried on, and the join's result
GoodPosts ==
    Frame(20707, {<<"AnswerCount", 45>>, <<"Title", 45>>, <<"ParentId", 50>>},
          {}, {},
          {<<"PostTypeId", {"1", "2"}>>, <<"ContentLicense", {"CC BY-SA 4.0"}>>})
PostsFrames ==
    { GoodPosts,
      [GoodPosts EXCEPT !.size = 19999],
      [GoodPosts EXCEPT !.dup = {"Id"}],
      [GoodPosts EXCEPT !.pct = {<<"AnswerCount", 43>>, <<"Title", 45>>},
                        !.neg = {"ViewCount"},
                        !.vals = {<<"PostTypeId", {"1", "2"}>>,
                                  <<"ContentLicense", {"MIT"}>>}] }
GoodTags == Frame(991, {<<"ExcerptPostId", 80>>, <<"WikiPostId", 80>>}, {}, {}, {})
TagsFrames ==
    { GoodTags,
      [GoodTags EXCEPT !.pct = {<<"ExcerptPostId", 76>>, <<"WikiPostId", 80>>}] }
GoodPostsTags == Frame(31595, {}, {}, {}, {})
PostsTagsFrames == { GoodPostsTags, [GoodPostsTags EXCEPT !.size = 29999] }

\* ------------------------------------------------------- the SQLite store
Tables == {"check_results", "posts", "tags", "posts_tags"}
EntityTables == {"posts", "tags", "posts_tags"}
Absent == [exists |-> FALSE, rows |-> <<>>]
Empty == [exists |-> TRUE, rows |-> <<>>]

\* DROP TABLE IF EXISTS t (one statement, durable on its own: sqlite3 runs
\* DDL in autocommit)
drop(st, table) == [st EXCEPT ![table] = Absent]

\* CREATE TABLE IF NOT EXISTS t (...) (one statement, durable on its own)
create(st, table) == IF st[table].exists THEN st ELSE [st EXCEPT ![table] = Empty]

\* the INSERT of a frame's rows, committed at its end; the rows are tagged with
\* the run that produced them
insert(st, r, table) ==
    [st EXCEPT ![table] = [exists |-> TRUE, rows |-> Append(st[table].rows, r)]]

\* Database.to_sql(df, table, if_exists): df.to_sql(..., if_exists=if_exists),
\* the whole call: 'replace' drops and recreates the table before the insert,
\* 'append' creates it only when it is missing
to_sql(st, r, table, if_exists) ==
    IF if_exists = "replace"
    THEN insert(create(drop(st, table), table), r, table)
    ELSE insert(create(st, table), r, table)

NoReports == [posts |-> <<>>, tags |-> <<>>, posts_tags |-> <<>>]
NoCalls == [t \in Tables |-> 0]
NoParquet == [n \in EntityTables |-> 0]

PipeInit ==
    /\ pc = "init"
    /\ run = 1
    /\ posts = NoData /\ tags = NoData /\ posts_tags = NoData
    /\ parquet = NoParquet
    /\ reports = NoReports
    /\ checks = <<>>
    /\ dbFile = FALSE
    /\ store = [t \in Tables |-> Absent]
    /\ calls = NoCalls
    /\ execs = 0
    /\ connected = FALSE
    /\ exitCode = "none"
    /\ storeAtStart = [t \in Tables |-> Absent]
    /\ fileAtStart = FALSE
    /\ history = [gated |-> 0, committed |-> 0]

DeriveIdle == d_pc = "idle" /\ d_posts = <<>> /\ d_tags = <<>> /\ d_df = <<>>
XmlIdle == x_pc = "idle" /\ x_fields = <<>> /\ x_columns = <<>>

\* ------------------------------------------------------- main(), step by step
Step(from, to) == pc = from /\ pc' = to

\* variant: the database is opened at the top of main()
InitSpark_Connects ==
    /\ Step("init", "load_posts")
    /\ connected' = TRUE
    /\ dbFile' = TRUE
    /\ UNCHANGED <<run, posts, tags, posts_tags, parquet, reports, checks,
                   store, calls, execs, exitCode, storeAtStart, fileAtStart, history>>

\* sc = scl.SparkClient("XML_Import", path)
InitSpark ==
    /\ Step("init", "load_posts")
    /\ UNCHANGED <<run, posts, tags, posts_tags, parquet, reports, checks, dbFile,
                   store, calls, execs, connected, exitCode, storeAtStart, fileAtStart, history>>

\* posts = scl.Posts(sc, 'Posts.xml')
LoadPosts ==
    /\ Step("load_posts", "load_tags")
    /\ \E df \in PostsFrames : posts' = df
    /\ UNCHANGED <<run, tags, posts_tags, parquet, reports, checks, dbFile,
                   store, calls, execs, connected, exitCode, storeAtStart, fileAtStart, history>>

\* tags = scl.Tags(sc, 'Tags.xml')
LoadTags ==
    /\ Step("load_tags", "derive")
    /\ \E df \in TagsFrames : tags' = df
    /\ UNCHANGED <<run, posts, posts_tags, parquet, reports, checks, dbFile,
                   store, calls, execs, connected, exitCode, storeAtStart, fileAtStart, history>>

\* posts_tags = scl.PostsTags(sc, posts.df, tags.df)
DerivePostsTags ==
    /\ Step("derive", "save_posts")
    /\ \E df \in PostsTagsFrames : posts_tags' = df
    /\ UNCHANGED <<run, posts, tags, parquet, reports, checks, dbFile,
                   store, calls, execs, connected, exitCode, storeAtStart, fileAtStart, history>>

\* df.write.mode('overwrite') first deletes the existing target ...
delete_target(files, name) == [files EXCEPT ![name] = 0]

\* SparkClient.write_parquet(df, name): ... and then the write job produces the
\* new file set
write_parquet(files, name, r) == [files EXCEPT ![name] = r]

\* a file set the write job of run r left unfinished
PartlyWritten(r) == 0 - r

\* what a write job cut short at position p leaves: nothing, or part of the files
Interrupted(files, p, r) ==
    IF \E n \in EntityTables : p = "write_" \o n
    THEN LET n == CHOOSE n \in EntityTables : p = "write_" \o n
         IN {files, [files EXCEPT ![n] = PartlyWritten(r)]}
    ELSE {files}

\* the overwrite of posts.save() / tags.save() / posts_tags.save() removes the
\* previous snapshot
ClearStep(from, to, name) ==
    /\ Step(from, to)
    /\ parquet' = delete_target(parquet, name)
    /\ UNCHANGED <<run, posts, tags, posts_tags, reports, checks, dbFile,
                   store, calls, execs, connected, exitCode, storeAtStart, fileAtStart, history>>

ClearPosts == ClearStep("save_posts", "write_posts", "posts")
ClearTags == ClearStep("save_tags", "write_tags", "tags")
ClearPostsTags == ClearStep("save_posts_tags", "write_posts_tags", "posts_tags")

\* posts.save(): the write job
SavePosts ==
    /\ Step("write_posts", "save_tags")
    /\ parquet' = write_parquet(parquet, "posts", run)
    /\ UNCHANGED <<run, posts, tags, posts_tags, reports, checks, dbFile,
                   store, calls, execs, connected, exitCode, storeAtStart, fileAtStart, history>>

\* tags.save(): the write job
SaveTags ==
    /\ Step("write_tags", "save_posts_tags")
    /\ parquet' = write_parquet(parquet, "tags", run)
    /\ UNCHANGED <<run, posts, tags, posts_tags, reports, checks, dbFile,
                   store, calls, execs, connected, exitCode, storeAtStart, fileAtStart, history>>

\* posts_tags.save(): the write job
SavePostsTags ==
    /\ Step("write_posts_tags", "check_posts")
    /\ parquet' = write_parquet(parquet, "posts_tags", run)
    /\ UNCHANGED <<run, posts, tags, posts_tags, reports, checks, dbFile,
                   store, calls, execs, connected, exitCode, storeAtStart, fileAtStart, history>>

\* posts.check()
CheckPosts ==
    /\ Step("check_posts", "check_tags")
    /\ reports' = [reports EXCEPT !.posts = PostsCheck(posts)]
    /\ UNCHANGED <<run, posts, tags, posts_tags, parquet, checks, dbFile,
                   store, calls, execs, connected, exitCode, storeAtStart, fileAtStart, history>>

\* tags.check()
CheckTags ==
    /\ Step("check_tags", "check_posts_tags")
    /\ reports' = [reports EXCEPT !.tags = TagsCheck(tags)]
    /\ UNCHANGED <<run, posts, tags, posts_tags, parquet, checks, dbFile,
                   store, calls, execs, connected, exitCode, storeAtStart, fileAtStart, history>>

\* posts_tags.check()
CheckPostsTags ==
    /\ Step("check_posts_tags", "union")
    /\ reports' = [reports EXCEPT !.posts_tags = PostsTagsCheck(posts_tags)]
    /\ UNCHANGED <<run, posts, tags, posts_tags, parquet, checks, dbFile,
                   store, calls, execs, connected, exitCode, storeAtStart, fileAtStart, history>>

\* checks = (...union...union...).toPandas()
Materialize ==
    /\ Step("union", "connect")
    /\ checks' = UnionChecks(reports)
    /\ UNCHANGED <<run, posts, tags, posts_tags, parquet, reports, dbFile,
                   store, calls, execs, connected, exitCode, storeAtStart, fileAtStart, history>>

\* db = sql.Database(path + os.sep + 'warehouse.db'): sqlite3.connect creates the file
Connect ==
    /\ Step("connect", "save_checks")
    /\ connected' = TRUE
    /\ dbFile' = TRUE
    /\ UNCHANGED <<run, posts, tags, posts_tags, parquet, reports, checks,
                   store, calls, execs, exitCode, storeAtStart, fileAtStart, history>>

\* variant: the entity tables are recreated before the gate is consulted
SaveChecks_Recreates ==
    /\ Step("save_checks_insert", "gate")
    /\ store' = create(drop(create(drop(create(drop(
                    insert(store, run, "check_results"),
                    "posts"), "posts"), "tags"), "tags"), "posts_tags"), "posts_tags")
    /\ UNCHANGED <<run, posts, tags, posts_tags, parquet, reports, checks, dbFile,
                   calls, execs, connected, exitCode, storeAtStart, fileAtStart, history>>

\* db.to_sql(checks, 'check_results', if_exists='replace') is entered and drops
\* the table of the previous report
SaveChecksDrop ==
    /\ Step("save_checks", "save_checks_create")
    /\ store' = drop(store, "check_results")
    /\ calls' = [calls EXCEPT !["check_results"] = @ + 1]
    /\ UNCHANGED <<run, posts, tags, posts_tags, parquet, reports, checks, dbFile,
                   execs, connected, exitCode, storeAtStart, fileAtStart, history>>

\* ... creates it again ...
SaveChecksCreate ==
    /\ Step("save_checks_create", "save_checks_insert")
    /\ store' = create(store, "check_results")
    /\ UNCHANGED <<run, posts, tags, posts_tags, parquet, reports, checks, dbFile,
                   calls, execs, connected, exitCode, storeAtStart, fileAtStart, history>>

\* ... and inserts the report; the call returns
SaveChecks ==
    /\ Step("save_checks_insert", "gate")
    /\ store' = insert(store, run, "check_results")
    /\ UNCHANGED <<run, posts, tags, posts_tags, parquet, reports, checks, dbFile,
                   calls, execs, connected, exitCode, storeAtStart, fileAtStart, history>>

\* variant: the gate tolerates a single failing row
GateFails_OffByOne(report) == Len(Failed(report)) > 1

\* if len(failed) > 0: sc.stop(); sys.exit('Data validation check has failed! ...')
GateFails(report) == Len(Failed(report)) > 0

\* variant: a failed validation starts the load again instead of exiting
Gate_Retry ==
    /\ pc = "gate"
    /\ IF GateFails(checks)
       THEN pc' = "load_posts"
       ELSE pc' = "drop_posts"
    /\ history' = [history EXCEPT !.gated = run]
    /\ UNCHANGED <<run, posts, tags, posts_tags, parquet, reports, checks, dbFile,
                   store, calls, execs, connected, exitCode, storeAtStart, fileAtStart>>

Gate ==
    /\ pc = "gate"
    /\ IF GateFails(checks)
       THEN pc' = "abort"
       ELSE pc' = "drop_posts"
    /\ history' = [history EXCEPT !.gated = run]
    /\ UNCHANGED <<run, posts, tags, posts_tags, parquet, reports, checks, dbFile,
                   store, calls, execs, connected, exitCode, storeAtStart, fileAtStart>>

\* sc.stop(); sys.exit('Data validation check has failed! ...')
Abort ==
    /\ Step("abort", "aborted")
    /\ exitCode' = "nonzero"
    /\ UNCHANGED <<run, posts, tags, posts_tags, parquet, reports, checks, dbFile,
                   store, calls, execs, connected, storeAtStart, fileAtStart, history>>

\* create(), first statement: self.db.execute('DROP TABLE IF EXISTS t')
DropStep(from, to, table) ==
    /\ Step(from, to)
    /\ store' = drop(store, table)
    /\ execs' = execs + 1
    /\ UNCHANGED <<run, posts, tags, posts_tags, parquet, reports, checks, dbFile,
                   calls, connected, exitCode, storeAtStart, fileAtStart, history>>

\* create(), second statement: self.db.execute('CREATE TABLE IF NOT EXISTS t ...')
CreateStep(from, to, table) ==
    /\ Step(from, to)
    /\ store' = create(store, table)
    /\ execs' = execs + 1
    /\ UNCHANGED <<run, posts, tags, posts_tags, parquet, reports, checks, dbFile,
                   calls, connected, exitCode, storeAtStart, fileAtStart, history>>

\* sql.Posts(db).create() / sql.Tags(db).create() / sql.PostsTags(db).create()
DropPosts == DropStep("drop_posts", "create_posts", "posts")
CreatePosts == CreateStep("create_posts", "drop_tags", "posts")
DropTags == DropStep("drop_tags", "create_tags", "tags")
CreateTags == CreateStep("create_tags", "drop_posts_tags", "tags")
DropPostsTags == DropStep("drop_posts_tags", "create_posts_tags", "posts_tags")
CreatePostsTags == CreateStep("create_posts_tags", "to_sql_posts", "posts_tags")

\* db.to_sql(posts.df.toPandas(), 'posts') and the two that follow: the frame
\* is collected, then appended to the table create() left empty (one insert)
ToSqlStep(from, to, table) ==
    /\ Step(from, to)
    /\ store' = to_sql(store, run, table, "append")
    /\ calls' = [calls EXCEPT ![table] = @ + 1]
    /\ UNCHANGED <<run, posts, tags, posts_tags, parquet, reports, checks, dbFile,
                   execs, connected, exitCode, storeAtStart, fileAtStart>>

ToSqlPosts == ToSqlStep("to_sql_posts", "to_sql_tags", "posts") /\ UNCHANGED history
ToSqlTags == ToSqlStep("to_sql_tags", "to_sql_posts_tags", "tags") /\ UNCHANGED history
\* with the third table written the run has committed
ToSqlPostsTags ==
    /\ ToSqlStep("to_sql_posts_tags", "stop", "posts_tags")
    /\ history' = [history EXCEPT !.committed = run]

\* sc.stop(); print('Data Loaded Successfully!')
Stop ==
    /\ Step("stop", "done")
    /\ exitCode' = "zero"
    /\ UNCHANGED <<run, posts, tags, posts_tags, parquet, reports, checks, dbFile,
                   store, calls, execs, connected, storeAtStart, fileAtStart, history>>
\* ------------------------------------------------------- ways a run is cut short
\* positions before the store is opened at which the next call is a Spark call
SparkPoints == {"load_posts", "load_tags", "derive",
                "save_posts", "write_posts", "save_tags", "write_tags",
                "save_posts_tags", "write_posts_tags",
                "check_posts", "check_tags", "check_posts_tags", "union"}
\* later Spark calls: X.df.toPandas() ahead of each to_sql, and sc.stop()
LateSparkPoints == {"to_sql_posts", "to_sql_tags", "to_sql_posts_tags", "abort", "stop"}
Terminal == {"done", "aborted", "error", "killed"}

\* a Spark call raises (FAILFAST on a malformed record, a failed write, ...):
\* the exception leaves main()
EngineError ==
    /\ pc \in SparkPoints \cup LateSparkPoints
    /\ pc' = "error"
    /\ exitCode' = "nonzero"
    /\ parquet' \in Interrupted(parquet, pc, run)
    /\ UNCHANGED <<run, posts, tags, posts_tags, reports, checks, dbFile,
                   store, calls, execs, connected, storeAtStart, fileAtStart, history>>

\* sqlite3.connect raises: nothing is created
ConnectError ==
    /\ Step("connect", "error")
    /\ exitCode' = "nonzero"
    /\ UNCHANGED <<run, posts, tags, posts_tags, parquet, reports, checks, dbFile,
                   store, calls, execs, connected, storeAtStart, fileAtStart, history>>

\* to_sql(..., if_exists='replace') raises: on its DROP, on the CREATE that
\* follows, or on the INSERT (rolled back); what was done before stays done
SaveChecksError ==
    /\ pc \in {"save_checks", "save_checks_create", "save_checks_insert"}
    /\ pc' = "error"
    /\ exitCode' = "nonzero"
    /\ calls' = IF pc = "save_checks"
                THEN [calls EXCEPT !["check_results"] = @ + 1]
                ELSE calls
    /\ UNCHANGED <<run, posts, tags, posts_tags, parquet, reports, checks, dbFile,
                   store, execs, connected, storeAtStart, fileAtStart, history>>

\* Database.execute raises inside create(): on the DROP (table untouched) or on
\* the CREATE (table already dropped); the failed statement changes nothing
CreateError ==
    /\ \E table \in EntityTables : pc \in {"drop_" \o table, "create_" \o table}
    /\ pc' = "error"
    /\ exitCode' = "nonzero"
    /\ execs' = execs + 1
    /\ UNCHANGED <<run, posts, tags, posts_tags, parquet, reports, checks, dbFile,
                   store, calls, connected, storeAtStart, fileAtStart, history>>

\* to_sql(df, table) raises: pandas rolls the insert back
ToSqlError ==
    /\ \E table \in EntityTables :
          /\ pc = "to_sql_" \o table
          /\ calls' = [calls EXCEPT ![table] = @ + 1]
    /\ pc' = "error"
    /\ exitCode' = "nonzero"
    /\ UNCHANGED <<run, posts, tags, posts_tags, parquet, reports, checks, dbFile,
                   store, execs, connected, storeAtStart, fileAtStart, history>>

\* the process is stopped from outside: between two statements, or inside a
\* parquet write job
Kill ==
    /\ pc \notin Terminal
    /\ pc' = "killed"
    /\ exitCode' = "nonzero"
    /\ parquet' \in Interrupted(parquet, pc, run)
    /\ UNCHANGED <<run, posts, tags, posts_tags, reports, checks, dbFile,
                   store, calls, execs, connected, storeAtStart, fileAtStart, history>>

\* main() is started again on the same working directory
NewRun ==
    /\ pc \in Terminal
    /\ run < MaxRuns
    /\ pc' = "init"
    /\ run' = run + 1
    /\ posts' = NoData /\ tags' = NoData /\ posts_tags' = NoData
    /\ reports' = NoReports
    /\ checks' = <<>>
    /\ calls' = NoCalls
    /\ execs' = 0
    /\ connected' = FALSE
    /\ exitCode' = "none"
    /\ storeAtStart' = store
    /\ fileAtStart' = dbFile
    /\ UNCHANGED <<parquet, dbFile, store, history>>

\* ------------------------------------------------------- PostsTags: the join
\* A text is a sequence of one-character strings; a nullable column value v
\* is <<v>>, and <<>> when it is NULL.
Some(v) == <<v>>
None == <<>>
IsNull(x) == x = None

\* Column.contains(other): other occurs in s as a contiguous run of characters
Contains(s, sub) ==
    \E i \in 0..(Len(s) - Len(sub)) : SubSeq(s, i + 1, i + Len(sub)) = sub

\* variant: the tag name is looked for without its delimiters
JoinCondition_Bare(p, t) ==
    IF IsNull(p.Tags) \/ IsNull(t.TagName)
    THEN FALSE
    ELSE Contains(p.Tags[1], t.TagName[1])

\* f.col('p.Tags').contains(f.concat(f.lit('<'), f.col('t.TagName'), f.lit('>')));
\* a NULL operand makes the condition NULL, which an inner join drops
JoinCondition(p, t) ==
    IF IsNull(p.Tags) \/ IsNull(t.TagName)
    THEN FALSE
    ELSE Contains(p.Tags[1], <<"<">> \o t.TagName[1] \o <<">">>)

\* variant: TagId is read from the posts alias
SelectColumns_TagIdFromPost(p, t) ==
    [PostId |-> p.Id, TagId |-> p.Id, TagName |-> t.TagName]

\* variant: PostId is read from the tags alias
SelectColumns_PostIdFromTag(p, t) ==
    [PostId |-> t.Id, TagId |-> t.Id, TagName |-> t.TagName]

\* .select(f.col('p.Id').alias('PostId'), f.col('t.Id').alias('TagId'), 't.TagName')
SelectColumns(p, t) ==
    [PostId |-> p.Id, TagId |-> t.Id, TagName |-> t.TagName]

\* posts_df.alias('p').join(tags_df.alias('t'), <condition>, how='inner').select(...)
\* evaluated as a nested loop over the row pairs
PostsTagsDf(posts_df, tags_df) ==
    LET n == Len(posts_df)
        m == Len(tags_df)
        pairs == [k \in 1..(n * m) |-> <<((k - 1) \div m) + 1, ((k - 1) % m) + 1>>]
        joined == SelectSeq(pairs,
                            LAMBDA ij : JoinCondition(posts_df[ij[1]], tags_df[ij[2]]))
    IN [k \in 1..Len(joined) |->
            SelectColumns(posts_df[joined[k][1]], tags_df[joined[k][2]])]

\* rows the join is tried on
TagsTexts ==
    { None,
      Some(<<>>),
      Some(<<"<", "a", "b", ">">>),
      Some(<<"<", "a", ">", "<", "b", ">">>) }
TagNames == { None, Some(<<"a">>), Some(<<"b">>), Some(<<"a", "b">>) }
RowIds == {1, 2}
PostRows == [Id : RowIds, Tags : TagsTexts]
TagRows == [Id : RowIds, TagName : TagNames]

SeqsUpTo(S, n) == UNION { [1..k -> S] : k \in 0..n }

DeriveInit ==
    /\ d_pc = "given"
    /\ d_posts \in SeqsUpTo(PostRows, MaxPosts)
    /\ d_tags \in SeqsUpTo(TagRows, MaxTags)
    /\ d_df = <<>>

\* PostsTags.__init__
DeriveStep ==
    /\ d_pc = "given"
    /\ d_pc' = "derived"
    /\ d_df' = PostsTagsDf(d_posts, d_tags)
    /\ UNCHANGED <<d_posts, d_tags>>

\* ------------------------------------------------------- parse_xml: column names
\* A record field is an XML attribute or a child element; flattening gives an
\* attribute's column the "_" prefix and a child element's column its bare name.
FlattenedName(field) == IF field.attr THEN <<"_">> \o field.name ELSE field.name

\* new_column_names = [c[1:] for c in df.columns]
StripPrefix(c) == IF Len(c) = 0 THEN c ELSE Tail(c)

\* df.toDF(*new_column_names)
RenamedColumns(columns) == [i \in 1..Len(columns) |-> StripPrefix(columns[i])]

FieldNames ==
    { <<"I", "d">>, <<"d">>, <<"B", "o", "d", "y">>, <<"C", "o", "u", "n", "t">> }
Fields == [name : FieldNames, attr : BOOLEAN]

\* a record's flattened columns have distinct names
DistinctColumns(fields) ==
    \A i, j \in 1..Len(fields) :
        i # j => FlattenedName(fields[i]) # FlattenedName(fields[j])

XmlInit ==
    /\ x_pc = "given"
    /\ x_fields \in { fs \in SeqsUpTo(Fields, MaxCols) : DistinctColumns(fs) }
    /\ x_columns = <<>>

\* SparkClient.parse_xml
ParseXml ==
    /\ x_pc = "given"
    /\ x_pc' = "parsed"
    /\ x_columns' =
          RenamedColumns([i \in 1..Len(x_fields) |-> FlattenedName(x_fields[i])])
    /\ UNCHANGED x_fields

Init == PipeInit /\ DeriveIdle /\ XmlIdle

Next ==
    \/ (InitSpark /\ UNCHANGED <<deriveVars, xmlVars>>)
    \/ (LoadPosts /\ UNCHANGED <<deriveVars, xmlVars>>)
    \/ (LoadTags /\ UNCHANGED <<deriveVars, xmlVars>>)
    \/ (DerivePostsTags /\ UNCHANGED <<deriveVars, xmlVars>>)
    \/ (ClearPosts /\ UNCHANGED <<deriveVars, xmlVars>>)
    \/ (SavePosts /\ UNCHANGED <<deriveVars, xmlVars>>)
    \/ (ClearTags /\ UNCHANGED <<deriveVars, xmlVars>>)
    \/ (SaveTags /\ UNCHANGED <<deriveVars, xmlVars>>)
    \/ (ClearPostsTags /\ UNCHANGED <<deriveVars, xmlVars>>)
    \/ (SavePostsTags /\ UNCHANGED <<deriveVars, xmlVars>>)
    \/ (CheckPosts /\ UNCHANGED <<deriveVars, xmlVars>>)
    \/ (CheckTags /\ UNCHANGED <<deriveVars, xmlVars>>)
    \/ (CheckPostsTags /\ UNCHANGED <<deriveVars, xmlVars>>)
    \/ (Materialize /\ UNCHANGED <<deriveVars, xmlVars>>)
    \/ (Connect /\ UNCHANGED <<deriveVars, xmlVars>>)
    \/ (SaveChecksDrop /\ UNCHANGED <<deriveVars, xmlVars>>)
    \/ (SaveChecksCreate /\ UNCHANGED <<deriveVars, xmlVars>>)
    \/ (SaveChecks /\ UNCHANGED <<deriveVars, xmlVars>>)
    \/ (Gate /\ UNCHANGED <<deriveVars, xmlVars>>)
    \/ (Abort /\ UNCHANGED <<deriveVars, xmlVars>>)
    \/ (DropPosts /\ UNCHANGED <<deriveVars, xmlVars>>)
    \/ (CreatePosts /\ UNCHANGED <<deriveVars, xmlVars>>)
    \/ (DropTags /\ UNCHANGED <<deriveVars, xmlVars>>)
    \/ (CreateTags /\ UNCHANGED <<deriveVars, xmlVars>>)
    \/ (DropPostsTags /\ UNCHANGED <<deriveVars, xmlVars>>)
    \/ (CreatePostsTags /\ UNCHANGED <<deriveVars, xmlVars>>)
    \/ (ToSqlPosts /\ UNCHANGED <<deriveVars, xmlVars>>)
    \/ (ToSqlTags /\ UNCHANGED <<deriveVars, xmlVars>>)
    \/ (ToSqlPostsTags /\ UNCHANGED <<deriveVars, xmlVars>>)
    \/ (Stop /\ UNCHANGED <<deriveVars, xmlVars>>)
    \/ (EngineError /\ UNCHANGED <<deriveVars, xmlVars>>)
    \/ (ConnectError /\ UNCHANGED <<deriveVars, xmlVars>>)
    \/ (SaveChecksError /\ UNCHANGED <<deriveVars, xmlVars>>)
    \/ (CreateError /\ UNCHANGED <<deriveVars, xmlVars>>)
    \/ (ToSqlError /\ UNCHANGED <<deriveVars, xmlVars>>)
    \/ (Kill /\ UNCHANGED <<deriveVars, xmlVars>>)
    \/ (NewRun /\ UNCHANGED <<deriveVars, xmlVars>>)

Spec == Init /\ [][Next]_vars

\* PostsTags(sc, posts_df, tags_df) on every pair of small tables
InitDerive == PipeInit /\ DeriveInit /\ XmlIdle
NextDerive == DeriveStep /\ UNCHANGED <<pipeVars, xmlVars>>
SpecDerive == InitDerive /\ [][NextDerive]_vars

\* parse_xml on every small record layout
InitXml == PipeInit /\ DeriveIdle /\ XmlInit
NextXml == ParseXml /\ UNCHANGED <<pipeVars, deriveVars>>
SpecXml == InitXml /\ [][NextXml]_vars

\* a step of a run that has not ended; starting main() again is not one
RunStep == pc \notin Terminal /\ Next

\* main() is straight-line code: a run that can take a step takes one. Nothing
\* restarts main(): a run that has ended may stay ended for ever
SpecLive == Spec /\ WF_vars(RunStep)
\* ======================================================= claims on main()
ThisRun == [exists |-> TRUE, rows |-> <<run>>]
HasRunRows(table) == \E i \in 1..Len(store[table].rows) : store[table].rows[i] = run
PreConnect == {"init"} \cup SparkPoints \cup {"connect"}

\* C1: commit gate. A report with a non-Success row: to_sql is invoked for
\* check_results and never for posts, tags or posts_tags; the run ends aborted.
\* A report of Success rows only, in a run that reaches its normal end: to_sql
\* has been invoked exactly once for each of the four tables.
C1_CommitGate ==
    /\ \A t \in Tables : calls[t] <= 1
    /\ Len(Failed(checks)) > 0 => \A t \in EntityTables : calls[t] = 0
    /\ (Len(Failed(checks)) > 0 /\ pc \in {"gate", "abort", "aborted"})
          => calls["check_results"] = 1
    /\ pc = "aborted" => Len(Failed(checks)) > 0
    /\ pc = "done" => (Len(Failed(checks)) = 0 /\ \A t \in Tables : calls[t] = 1)

C1_Witness ==
    /\ pc = "aborted"
    /\ Len(Failed(checks)) = 1
    /\ calls["check_results"] = 1

\* C2: all-or-nothing commit. In every state in which a run stops (normal
\* end, validation abort, persistence error) the store holds this run's rows
\* in all three of posts, tags, posts_tags or in none of them.
C2_AllOrNothing ==
    pc \in {"done", "aborted", "error"} =>
        \/ \A t \in EntityTables : HasRunRows(t)
        \/ \A t \in EntityTables : ~HasRunRows(t)

\* C3: a run that aborts because validation failed leaves posts, tags and
\* posts_tags exactly as they were when it started (not dropped, not recreated,
\* no row added or removed); check_results holds this run's report.
C3_AbortKeepsEntities ==
    pc = "aborted" =>
        /\ \A t \in EntityTables : store[t] = storeAtStart[t]
        /\ store["check_results"] = ThisRun
        /\ execs = 0

C3_Witness ==
    /\ pc = "aborted"
    /\ run = 2
    /\ \A t \in EntityTables : storeAtStart[t] = [exists |-> TRUE, rows |-> <<1>>]
    /\ \A t \in EntityTables : store[t] = [exists |-> TRUE, rows |-> <<1>>]
    /\ storeAtStart["check_results"] # store["check_results"]

\* C4: nothing touches the relational store (connecting or creating its file,
\* DROP/CREATE TABLE, to_sql) before the three check suites have run and their
\* union has been materialized; a run stopped before that point leaves the
\* store as it found it.
C4_StoreUntouchedBeforeGate ==
    /\ ~connected =>
          /\ store = storeAtStart
          /\ dbFile = fileAtStart
          /\ calls = NoCalls
          /\ execs = 0
    /\ connected =>
          /\ Len(reports.posts) > 0 /\ Len(reports.tags) > 0
          /\ Len(reports.posts_tags) > 0
          /\ checks = UnionChecks(reports)
    /\ pc \in PreConnect => ~connected

C4_Witness ==
    /\ pc = "killed"
    /\ ~connected
    /\ run = 2
    /\ parquet["posts_tags"] = 2
    /\ store["posts"] = [exists |-> TRUE, rows |-> <<1>>]

\* a run that has passed loading ends in no state other than COMMITTED or
\* ABORTED: no exception ends it
C5_EndsCommittedOrAborted ==
    ~(pc = "error" /\ posts # NoData /\ tags # NoData)

\* in ABORTED the report is the only thing the run has persisted: no entity
\* data was written by the run
C5_AbortedOnlyReport ==
    pc = "aborted" =>
        /\ exitCode = "nonzero"
        /\ store["check_results"] = ThisRun
        /\ \A t \in EntityTables : store[t] = storeAtStart[t]
        /\ \A n \in EntityTables : parquet[n] # run

\* C5 as stated: every run that passes loading ends COMMITTED or ABORTED, and
\* an ABORTED run has persisted the report only.
C5_OnlyReportPersisted == C5_EndsCommittedOrAborted /\ C5_AbortedOnlyReport

Rank(p) ==
    CASE p = "init" -> 0
      [] p = "load_posts" -> 1
      [] p = "load_tags" -> 2
      [] p = "derive" -> 3
      [] p = "save_posts" -> 4
      [] p = "write_posts" -> 5
      [] p = "save_tags" -> 6
      [] p = "write_tags" -> 7
      [] p = "save_posts_tags" -> 8
      [] p = "write_posts_tags" -> 9
      [] p = "check_posts" -> 10
      [] p = "check_tags" -> 11
      [] p = "check_posts_tags" -> 12
      [] p = "union" -> 13
      [] p = "connect" -> 14
      [] p = "save_checks" -> 15
      [] p = "save_checks_create" -> 16
      [] p = "save_checks_insert" -> 17
      [] p = "gate" -> 18
      [] p = "abort" -> 19
      [] p = "drop_posts" -> 20
      [] p = "create_posts" -> 21
      [] p = "drop_tags" -> 22
      [] p = "create_tags" -> 23
      [] p = "drop_posts_tags" -> 24
      [] p = "create_posts_tags" -> 25
      [] p = "to_sql_posts" -> 26
      [] p = "to_sql_tags" -> 27
      [] p = "to_sql_posts_tags" -> 28
      [] p = "stop" -> 29
      [] OTHER -> 30

\* how a run stands when it has ended normally or by the validation abort
C5_Terminal ==
    /\ pc = "done" =>
          /\ exitCode = "zero"
          /\ \A t \in Tables : store[t] = ThisRun
          /\ \A n \in EntityTables : parquet[n] = run
    /\ pc = "aborted" =>
          /\ exitCode = "nonzero"
          /\ store["check_results"] = ThisRun
          /\ \A t \in EntityTables : store[t] = storeAtStart[t]
          /\ \A n \in EntityTables : parquet[n] = run

\* how a run stands when an exception or an external stop has ended it: every
\* statement completed before that point stays durable, nothing is rolled back
C5_Failed ==
    pc \in {"error", "killed"} =>
        /\ exitCode = "nonzero"
        /\ parquet["tags"] \in {run, PartlyWritten(run)} => parquet["posts"] = run
        /\ parquet["posts_tags"] \in {run, PartlyWritten(run)} => parquet["tags"] = run
        /\ connected => \A n \in EntityTables : parquet[n] = run
        /\ ~connected => store = storeAtStart
        /\ store["check_results"] \in
              {storeAtStart["check_results"], Absent, Empty, ThisRun}
        /\ \A t \in EntityTables :
              /\ store[t] \in {storeAtStart[t], Absent, Empty, ThisRun}
              /\ store[t] # storeAtStart[t] =>
                    /\ store["check_results"] = ThisRun
                    /\ Len(Failed(checks)) = 0
        /\ store["tags"] # storeAtStart["tags"] => store["posts"] \in {Empty, ThisRun}
        /\ store["posts_tags"] # storeAtStart["posts_tags"] =>
              store["tags"] \in {Empty, ThisRun}

C5_Forward == run' = run => (pc' = pc \/ Rank(pc') > Rank(pc))

\* C5, amended: a run moves forward only (load, derive, snapshot, validate,
\* gate, commit; no step is taken twice), every run ends, and a run that has
\* ended never resumes. It ends in one of three ways. COMMITTED: exit 0, the
\* four tables hold exactly this run's rows. ABORTED: exit non-zero,
\* check_results is the run's only write to the relational store. In both the
\* run wrote the three parquet snapshots before validating. FAILED (an
\* exception or an external stop): exit non-zero, and what the statements
\* before the failure made durable stays: nothing in the relational store
\* before it is opened, then the report, then (only under an all-Success
\* report) the entity tables dropped, recreated and filled in the order posts,
\* tags, posts_tags, possibly only some of them.
C5_LinearRun ==
    /\ [](C5_Terminal /\ C5_Failed)
    /\ [][C5_Forward]_vars
    /\ (pc \notin Terminal) ~> (pc \in Terminal)

C5_Witness ==
    /\ pc = "aborted"
    /\ exitCode = "nonzero"
    /\ \A n \in EntityTables : parquet[n] = run
    /\ run = 2
    /\ store["posts"] = [exists |-> TRUE, rows |-> <<1>>]
\* ======================================================= claims on PostsTags
\* sub occurs in s: s is some prefix, then sub, then some suffix
Occurs(sub, s) ==
    \E a \in 0..Len(s) : \E b \in 0..Len(s) :
        /\ a + Len(sub) + b = Len(s)
        /\ \A k \in 1..Len(sub) : s[a + k] = sub[k]

Wrapped(name) == <<"<">> \o name \o <<">">>

\* the (post, tag) pair satisfies the containment rule
Tagged(p, t) ==
    /\ ~IsNull(p.Tags)
    /\ ~IsNull(t.TagName)
    /\ Occurs(Wrapped(t.TagName[1]), p.Tags[1])

TaggedPairs ==
    { ij \in (1..Len(d_posts)) \X (1..Len(d_tags)) : Tagged(d_posts[ij[1]], d_tags[ij[2]]) }

RowOf(ij) ==
    [PostId |-> d_posts[ij[1]].Id, TagId |-> d_tags[ij[2]].Id,
     TagName |-> d_tags[ij[2]].TagName]

Text_ab == Some(<<"<", "a", "b", ">">>)
Text_a_b == Some(<<"<", "a", ">", "<", "b", ">">>)
Tag_a == [Id |-> 1, TagName |-> Some(<<"a">>)]
Tag_b == [Id |-> 2, TagName |-> Some(<<"b">>)]

\* C6: delimiter-exactness. The derived table has one row per (post, tag) pair
\* whose Tags text contains '<' + TagName + '>' and no other row; tag 'a' with
\* Tags '<ab>' gives no row; Tags '<a><b>' with tags a and b gives two rows.
C6_DelimiterExact ==
    d_pc = "derived" =>
        /\ Len(d_df) = Cardinality(TaggedPairs)
        /\ \A ij \in TaggedPairs : \E k \in 1..Len(d_df) : d_df[k] = RowOf(ij)
        /\ \A k \in 1..Len(d_df) : \E ij \in TaggedPairs : d_df[k] = RowOf(ij)
        /\ (d_posts = <<[Id |-> 1, Tags |-> Text_ab]>> /\ d_tags = <<Tag_a>>)
              => d_df = <<>>
        /\ (d_posts = <<[Id |-> 1, Tags |-> Text_a_b]>> /\ d_tags = <<Tag_a, Tag_b>>)
              => /\ Len(d_df) = 2
                 /\ {d_df[1], d_df[2]} =
                       { [PostId |-> 1, TagId |-> 1, TagName |-> Some(<<"a">>)],
                         [PostId |-> 1, TagId |-> 2, TagName |-> Some(<<"b">>)] }

C6_Witness ==
    /\ d_pc = "derived"
    /\ d_posts = <<[Id |-> 1, Tags |-> Text_ab], [Id |-> 2, Tags |-> Text_a_b]>>
    /\ d_tags = <<Tag_a, Tag_b>>
    /\ Len(d_df) = 2
    /\ d_df[1].PostId = 2 /\ d_df[2].PostId = 2

NoDuplicatePairs ==
    \A k, l \in 1..Len(d_df) :
        k # l => <<d_df[k].PostId, d_df[k].TagId>> # <<d_df[l].PostId, d_df[l].TagId>>

UniqueIds(df) == \A i, j \in 1..Len(df) : i # j => df[i].Id # df[j].Id

\* C7 as stated: whatever posts and tags tables are given, no two derived rows
\* have the same (PostId, TagId).
C7_NoDuplicatePairsAnyInput == d_pc = "derived" => NoDuplicatePairs

\* C7, amended: when no two posts rows share an Id and no two tags rows share
\* an Id, no two derived rows have the same (PostId, TagId).
C7_NoDuplicatePairsUniqueIds ==
    (d_pc = "derived" /\ UniqueIds(d_posts) /\ UniqueIds(d_tags)) => NoDuplicatePairs

C7_Witness ==
    /\ d_pc = "derived"
    /\ UniqueIds(d_posts) /\ UniqueIds(d_tags)
    /\ Len(d_posts) = 2 /\ Len(d_tags) = 2
    /\ Len(d_df) = 4

\* C8: referential integrity. Every derived row's PostId is the Id of a posts
\* row, its TagId is the Id of a tags row, and its TagName is the TagName of a
\* tags row with that TagId.
C8_ReferentialIntegrity ==
    d_pc = "derived" =>
        \A k \in 1..Len(d_df) :
            /\ \E i \in 1..Len(d_posts) : d_posts[i].Id = d_df[k].PostId
            /\ \E j \in 1..Len(d_tags) :
                  /\ d_tags[j].Id = d_df[k].TagId
                  /\ d_tags[j].TagName = d_df[k].TagName

C8_Witness ==
    /\ d_pc = "derived"
    /\ d_posts = <<[Id |-> 1, Tags |-> Text_a_b]>>
    /\ d_tags = <<[Id |-> 2, TagName |-> Some(<<"b">>)]>>
    /\ d_df = <<[PostId |-> 1, TagId |-> 2, TagName |-> Some(<<"b">>)]>>

\* ======================================================= claims on the checks
Statuses == {"Success", "Failure"}
\* the run has gone past step p (a run cut short keeps no position)
Past(p) == pc \notin {"error", "killed"} /\ Rank(pc) > Rank(p)

\* C9: full battery. Posts.check gives 26 rows, Tags.check 12, PostsTags.check
\* 6, one per configured constraint in order, each Success or Failure, however
\* many constraints fail; the aggregated report is the three reports one after
\* the other (posts, tags, posts_tags), 44 rows, none dropped or merged.
C9_FullBattery ==
    /\ Past("check_posts") =>
          /\ Len(reports.posts) = 26
          /\ \A i \in 1..26 :
                /\ reports.posts[i].constraint =
                      <<PostsConstraints[i].kind, PostsConstraints[i].col>>
                /\ reports.posts[i].constraint_status \in Statuses
    /\ Past("check_tags") =>
          /\ Len(reports.tags) = 12
          /\ \A i \in 1..12 :
                /\ reports.tags[i].constraint =
                      <<TagsConstraints[i].kind, TagsConstraints[i].col>>
                /\ reports.tags[i].constraint_status \in Statuses
    /\ Past("check_posts_tags") =>
          /\ Len(reports.posts_tags) = 6
          /\ \A i \in 1..6 :
                /\ reports.posts_tags[i].constraint =
                      <<PostsTagsConstraints[i].kind, PostsTagsConstraints[i].col>>
                /\ reports.posts_tags[i].constraint_status \in Statuses
    /\ Past("union") =>
          /\ Len(checks) = 44
          /\ \A i \in 1..26 : checks[i] = reports.posts[i]
          /\ \A i \in 1..12 : checks[26 + i] = reports.tags[i]
          /\ \A i \in 1..6 : checks[38 + i] = reports.posts_tags[i]

C9_Witness ==
    /\ pc = "gate"
    /\ Len(checks) = 44
    /\ Len(Failed(reports.posts)) = 3
    /\ Len(Failed(reports.tags)) = 1
    /\ Len(Failed(checks)) = 5

\* ======================================================= claims on parse_xml
\* C10: every output column name of parse_xml is the field's name (the marker
\* removed when there is one, the name unchanged when there is none) and no two
\* columns get the same output name.
C10_ColumnsAreFieldNames ==
    x_pc = "parsed" =>
        /\ Len(x_columns) = Len(x_fields)
        /\ \A i \in 1..Len(x_fields) : x_columns[i] = x_fields[i].name
        /\ \A i, j \in 1..Len(x_columns) : i # j => x_columns[i] # x_columns[j]
\* ======================================================= claims on successive runs
\* the rows the tables hold when run r is the last one that wrote them
RowsOfRun(r) == IF r = 0 THEN Absent ELSE [exists |-> TRUE, rows |-> <<r>>]

\* C11: over successive runs on one working directory. A run that ends
\* COMMITTED leaves exactly its own rows in posts, tags, posts_tags and its own
\* report in check_results. At the end of any run that reached the gate,
\* check_results is the report of that run and the entity tables are those of
\* the most recent COMMITTED run (absent when no run has committed).
C11_TablesOfLastCommit ==
    /\ pc = "done" => \A t \in Tables : store[t] = ThisRun
    /\ (pc \in {"done", "aborted", "error"} /\ history.gated = run) =>
          /\ store["check_results"] = RowsOfRun(history.gated)
          /\ \A t \in EntityTables : store[t] = RowsOfRun(history.committed)
====
